---- MODULE Spec2Model ----
(***************************************************************************)
(* Shared single-audio-element playback coordinator of                     *)
(* src/components/ui/audio-player.tsx: the module-level audioManager and   *)
(* the AudioPlayer components that multiplex onto its one <audio> element. *)
(*                                                                         *)
(* One action is one task of the browser's event loop: a React commit of   *)
(* one AudioPlayer (mount, update, unmount) with every effect and cleanup  *)
(* it runs, one DOM event dispatch with every listener it reaches, one     *)
(* timer callback, one animation frame callback, or one user gesture.      *)
(***************************************************************************)
EXTENDS Integers, Sequences, FiniteSets, TLC

\* ------------------------------------------------------------------ bounds
NumPlayers == 2        \* AudioPlayer instances that can be mounted
MaxTime == 1           \* positions of the media are 0..MaxTime
MaxListeners == 4      \* canplay listeners registered at one time
MaxTimers == 6         \* setTimeout callbacks pending at one time
MaxInputs == 3         \* inputs of the user, the owning UI and the host in one behaviour

\* Date.now() is read in steps of TickMs up to MaxClock milliseconds.
TickMs == 125
MaxClock == 750
Players == 1..NumPlayers

\* Source identifiers are strings, modelled as sequences of characters.
\* rec1 is a substring of rec12; rec1 and rec2 are unrelated.
rec1 == <<1>>
rec2 == <<2>>
rec12 == <<1, 2>>
Sources == {rec1, rec2, rec12}
EmptyString == <<>>

\* String.prototype.includes: needle occurs in hay as a contiguous substring.
Includes(hay, needle) ==
    \E i \in 0..(Len(hay) - Len(needle)) :
        \A k \in 1..Len(needle) : hay[i + k] = needle[k]

\* ------------------------------------------------------------------ state
VARIABLES
    audioManager,      \* [activeSource, activePlayerCallback]
    audio,             \* the shared element: [src, paused, currentTime, ready]
    canplayListeners,  \* canplay listeners on the element, in registration order
    timers,            \* pending setTimeout callbacks, in registration order
    refs,              \* per player: sourceChangedRef, isUpdatingSourceRef,
                       \* animationRef, lastTimeUpdateRef
    currentTime,       \* per player: the component's currentTime state
    desiredPlaying,    \* per player: the owning UI's play intent
    props,             \* per player: mounted, src, isPlaying as last rendered, and
                       \* the src/isPlaying captured by the mount-only effects
    last,              \* the task just run: [op, player, log of the calls it made]
    inputs,            \* inputs of the user, the owning UI and the host so far
    element,           \* audioManager's isInitialized and activeElement, the number
                       \* of <audio> elements created, and the element the last
                       \* getAudioElement call returned
    clock,             \* Date.now(), in milliseconds since the page was loaded
    forwardedAt,       \* per player: <<t>> when its timeupdate listener last
                       \* forwarded a position at time t, <<>> when it never did
    db,                \* the server's tables: meeting, workspaceUser,
                       \* meetingParticipant, meetingRecording, meetingOutcome
    response           \* the server action just run: its name, caller,
                       \* arguments and returned value

vars == <<audioManager, audio, canplayListeners, timers, refs, currentTime,
          desiredPlaying, props, last, inputs, element, clock, forwardedAt,
          db, response>>

\* The variables of the page, which no server action touches.
pageVars == <<audioManager, audio, canplayListeners, timers, refs, currentTime,
              desiredPlaying, props, last, inputs, element, clock, forwardedAt>>

\* A server whose tables are empty and that has run no action.
NoRows == [meeting |-> {}, workspaceUser |-> {}, meetingParticipant |-> {},
           meetingRecording |-> {}, meetingOutcome |-> {}, nextId |-> 1]
NoResponse == [op |-> "none"]

NoCallback == [kind |-> "null", player |-> 0, isPlaying |-> FALSE]
\* The closure passed to setActivePlayer: it captures the render's isPlaying
\* and reaches the owning UI through onPlayPauseRef of its component.
Callback(p, isPlaying) == [kind |-> "fn", player |-> p, isPlaying |-> isPlaying]

NoFrame == EmptyString

\* The whole mutable world the handlers of one task read and write.
World == [am |-> audioManager, audio |-> audio, canplay |-> canplayListeners,
          timers |-> timers, refs |-> refs, currentTime |-> currentTime,
          desired |-> desiredPlaying, now |-> clock, log |-> <<>>]

\* One call made by the task being run, as recorded in last.log.
Ev(call, p, src, value) == [call |-> call, player |-> p, src |-> src, value |-> value]
Log(W, e) == [W EXCEPT !.log = Append(@, e)]

\* ------------------------------------------------- the owning UI (parent)
\* onPlayPause as reached through onPlayPauseRef.current: the play/pause
\* intent toggle of the owning UI, which flips its desiredPlaying state.
onPlayPause(W, p) ==
    Log([W EXCEPT !.desired[p] = ~@], Ev("onPlayPause", p, EmptyString, 0))

\* onTimeUpdate: the position forwarded to the owning UI.
onTimeUpdate(W, p, t) == Log(W, Ev("onTimeUpdate", p, EmptyString, t))

\* ------------------------------------------------- the HTMLAudioElement
\* audio.pause()
pause(W) == Log([W EXCEPT !.audio.paused = TRUE], Ev("pause", 0, EmptyString, 0))

\* audio.src = s followed by audio.load(): the load algorithm pauses the
\* element, rewinds it, and a ready (canplay) signal is due once data of a
\* non-empty source is available.
load(W, s) ==
    Log([W EXCEPT !.audio = [src |-> s, paused |-> TRUE, currentTime |-> 0,
                             ready |-> (s # EmptyString)]],
        Ev("load", 0, s, 0))

\* audio.play() called for player p. The promise resolves and the element
\* leaves the paused state, or the element stays paused because the host
\* rejects the promise (NotAllowedError, or another error such as
\* NotSupportedError) or because play throws. playAudio toggles the intent
\* in its promise handler for NotAllowedError only (line 346) and in its
\* catch block for a throw (lines 352-355).
PlayOutcomes == {"resolved", "NotAllowedError"}
HostOutcomes == PlayOutcomes \cup {"NotSupportedError", "throws"}
play(W, p, outcome) ==
    LET W1 == Log(W, Ev("play", p, W.audio.src, IF outcome = "resolved" THEN 1 ELSE 0))
    IN  IF outcome = "resolved" THEN [W1 EXCEPT !.audio.paused = FALSE]
        ELSE IF outcome = "NotSupportedError" THEN W1
        ELSE onPlayPause(W1, p)

\* ------------------------------------------------- audioManager
\* Invocation of a stored deactivation callback with argument isActive.
InvokeCallback(W, cb, isActive) ==
    LET W1 == Log(W, Ev("callback", cb.player, EmptyString, IF isActive THEN 1 ELSE 0))
    IN  IF ~isActive /\ cb.isPlaying THEN onPlayPause(W1, cb.player) ELSE W1

\* setActivePlayer without the notification of the previous player.
setActivePlayerUnnotified(W, source, callback) ==
    [W EXCEPT !.am = [activeSource |-> source, activePlayerCallback |-> callback]]

\* setActivePlayer that notifies the previous player whatever the source.
setActivePlayerAlwaysNotifies(W, source, callback) ==
    LET W0 == Log(W, Ev("setActivePlayer", callback.player, source,
                        IF W.am.activeSource = source THEN 1 ELSE 0))
        W1 == IF W.am.activePlayerCallback # NoCallback
              THEN InvokeCallback(W0, W.am.activePlayerCallback, FALSE)
              ELSE W0
    IN  [W1 EXCEPT !.am = [activeSource |-> source, activePlayerCallback |-> callback]]

\* setActivePlayer (lines 38-46). The call is recorded with the source
\* passed and whether activeSource equalled it when the call was made.
setActivePlayer(W, source, callback) ==
    LET W0 == Log(W, Ev("setActivePlayer", callback.player, source,
                        IF W.am.activeSource = source THEN 1 ELSE 0))
        W1 == IF W.am.activeSource # source /\ W.am.activePlayerCallback # NoCallback
              THEN InvokeCallback(W0, W.am.activePlayerCallback, FALSE)
              ELSE W0
    IN  [W1 EXCEPT !.am = [activeSource |-> source, activePlayerCallback |-> callback]]

\* The two assignments that release ownership (lines 110-111, 187-188, ...).
ClearActive(W) ==
    [W EXCEPT !.am = [activeSource |-> EmptyString, activePlayerCallback |-> NoCallback]]

\* Elements are numbered in the order of their creation; 0 is null and -1
\* stands for no call made yet.
NoElement == 0
NoCall == -1

\* initialize that creates a fresh element on every call.
initializeAgain(E) ==
    [E EXCEPT !.activeElement = E.created + 1, !.created = @ + 1,
              !.isInitialized = TRUE]

\* audioManager.initialize (lines 16-31).
initialize(E) ==
    IF E.isInitialized THEN E
    ELSE [E EXCEPT !.activeElement = E.created + 1, !.created = @ + 1,
                   !.isInitialized = TRUE]

\* audioManager.getAudioElement (lines 32-37).
getAudioElement(E) ==
    LET E1 == IF ~E.isInitialized THEN initialize(E) ELSE E
    IN  [E1 EXCEPT !.returned = E1.activeElement]

\* cleanup that leaves the stored callback in place.
cleanupKeepsCallback(W) ==
    LET W1 == pause(W)
    IN  [W1 EXCEPT !.audio = [src |-> EmptyString, paused |-> TRUE,
                              currentTime |-> 0, ready |-> FALSE],
                   !.am.activeSource = EmptyString]

\* audioManager.cleanup (lines 47-54): pause, src = '' (which resets the
\* element), and both coordinator fields cleared.
cleanup(W) ==
    LET W1 == pause(W)
    IN  ClearActive([W1 EXCEPT !.audio = [src |-> EmptyString, paused |-> TRUE,
                                          currentTime |-> 0, ready |-> FALSE]])

\* ------------------------------------------------- AudioPlayer helpers
\* Identity of a canPlayHandler closure and of the timer paired with it.
UsedIds(W) == {W.canplay[i].id : i \in 1..Len(W.canplay)}
                \cup {W.timers[i].id : i \in 1..Len(W.timers)}
FreeId(W) == CHOOSE n \in 1..(MaxListeners + MaxTimers + 4) :
                /\ n \notin UsedIds(W)
                /\ \A m \in 1..(n - 1) : m \in UsedIds(W)

RemoveListener(W, id) ==
    [W EXCEPT !.canplay = SelectSeq(@, LAMBDA h : h.id # id)]

\* A stop that leaves the requested frame in place.
stopSliderUpdatesKeepsFrame(W, p) == W

\* stopSliderUpdates (lines 477-482).
stopSliderUpdates(W, p) ==
    IF W.refs[p].animationRef = NoFrame THEN W
    ELSE Log([W EXCEPT !.refs[p].animationRef = NoFrame],
             Ev("cancelAnimationFrame", p, W.refs[p].animationRef, 0))

\* requestAnimationFrame(updateSlider): the pending frame holds the closure,
\* which captured the render's src.
startSliderUpdates(W, p, src) ==
    [stopSliderUpdates(W, p) EXCEPT !.refs[p].animationRef = src]

updateAudioSource(W, p, newSrc) ==
    IF W.refs[p].isUpdatingSourceRef THEN W
    ELSE IF W.audio.src = EmptyString \/ ~Includes(W.audio.src, newSrc)
    THEN LET W1 == [W EXCEPT !.refs[p].isUpdatingSourceRef = TRUE,
                             !.refs[p].sourceChangedRef = TRUE]
             W2 == pause(W1)
             W3 == load(W2, EmptyString)
             W4 == load(W3, newSrc)
         IN  [W4 EXCEPT !.timers = Append(@, [kind |-> "updating", player |-> p,
                                              src |-> newSrc, id |-> 0])]
    ELSE W

playAudio(W, p, src, outcome) ==
    IF ~Includes(W.audio.src, src) THEN updateAudioSource(W, p, src)
    ELSE IF W.audio.paused THEN play(W, p, outcome)
    ELSE W

waitForCanPlay(W, p, src) ==
    LET id == FreeId(W)
    IN  [W EXCEPT !.canplay = Append(@, [player |-> p, src |-> src, id |-> id]),
                  !.timers = Append(@, [kind |-> "fallback", player |-> p,
                                        src |-> src, id |-> id])]

\* canPlayHandler of waitForCanPlay, with the src its playAudio captured.
canPlayHandler(W, h, outcome) ==
    LET W1 == playAudio(W, h.player, h.src, outcome)
        W2 == [W1 EXCEPT !.refs[h.player].sourceChangedRef = FALSE]
    IN  RemoveListener(W2, h.id)

\* The 1000 ms fallback callback of waitForCanPlay.
fallbackTimer(W, t, outcome) ==
    IF W.refs[t.player].sourceChangedRef
    THEN LET W1 == [W EXCEPT !.refs[t.player].sourceChangedRef = FALSE]
             W2 == playAudio(W1, t.player, t.src, outcome)
         IN  RemoveListener(W2, t.id)
    ELSE W

\* The 100 ms callback of updateAudioSource.
updatingTimer(W, t) == [W EXCEPT !.refs[t.player].isUpdatingSourceRef = FALSE]

\* ------------------------------------------------- AudioPlayer effects
\* initialTime prop: its default value (line 78).
initialTime == 0

\* Registration effect (lines 106-114): cleanup only, closed over mount's src.
registrationCleanup(W, mountSrc) ==
    IF W.am.activeSource = mountSrc THEN ClearActive(W) ELSE W

\* Listener setup effect (lines 117-145), body as run on mount.
listenerSetupEffect(W, p, src, isPlaying) ==
    IF isPlaying /\ ~W.refs[p].isUpdatingSourceRef
    THEN updateAudioSource(W, p, src)
    ELSE W

\* Its cleanup (lines 137-143), closed over mount's isPlaying and src.
listenerCleanup(W, mountIsPlaying, mountSrc) ==
    IF mountIsPlaying /\ W.am.activeSource = mountSrc THEN pause(W) ELSE W

\* Source update effect (lines 148-153).
sourceUpdateEffect(W, p, src, isPlaying) ==
    IF (isPlaying /\ W.am.activeSource # src) \/ W.refs[p].sourceChangedRef
    THEN updateAudioSource(W, p, src)
    ELSE W

\* Play/pause effect (lines 156-192).
playPauseEffect(W, p, src, isPlaying, outcome) ==
    IF isPlaying
    THEN LET W1 == setActivePlayer(W, src, Callback(p, isPlaying))
             W2 == IF W1.refs[p].sourceChangedRef
                   THEN waitForCanPlay(W1, p, src)
                   ELSE playAudio(W1, p, src, outcome)
         IN  startSliderUpdates(W2, p, src)
    ELSE IF /\ W.audio.src # EmptyString
            /\ Includes(W.audio.src, src)
            /\ W.am.activeSource = src
         THEN LET W1 == stopSliderUpdates(pause(W), p)
              IN  IF W1.am.activeSource = src THEN ClearActive(W1) ELSE W1
         ELSE W

\* Initial time effect (lines 204-210).
initialTimeEffect(W, p, src, isPlaying) ==
    IF /\ initialTime > 0
       /\ isPlaying
       /\ W.audio.src # EmptyString
       /\ Includes(W.audio.src, src)
    THEN [W EXCEPT !.audio.currentTime = initialTime,
                   !.currentTime[p] = initialTime]
    ELSE W

\* Unmount cleanup effect (lines 220-242), closed over the render's src.
unmountCleanup(W, p, src) ==
    LET W1 == IF W.am.activeSource = src
              THEN ClearActive(onPlayPause(pause(W), p))
              ELSE W
    IN  stopSliderUpdates(W1, p)

\* Second play/pause effect (lines 245-282).
secondPlayPauseEffect(W, p, src, isPlaying, outcome) ==
    IF isPlaying
    THEN LET W1 == setActivePlayer(W, src, Callback(p, isPlaying))
             W2 == IF W1.refs[p].sourceChangedRef
                   THEN waitForCanPlay(W1, p, src)
                   ELSE playAudio(W1, p, src, outcome)
             W3 == startSliderUpdates(W2, p, src)
         IN  [W3 EXCEPT !.am.activeSource = src]
    ELSE IF /\ W.audio.src # EmptyString
            /\ Includes(W.audio.src, src)
            /\ W.am.activeSource = src
         THEN ClearActive(stopSliderUpdates(pause(W), p))
         ELSE W

\* Its cleanup (lines 284-290), closed over the render's isPlaying and src.
secondPlayPauseCleanup(W, p, src, isPlaying) ==
    IF isPlaying /\ W.am.activeSource = src THEN stopSliderUpdates(W, p) ELSE W

\* Animation cleanup effect (lines 485-489).
animationCleanup(W, p) == stopSliderUpdates(W, p)

\* ------------------------------------------------- React commits
\* Mount: every effect body in declaration order.
MountCommit(W, p, src, isPlaying, outcome) ==
    LET W0 == [W EXCEPT !.refs[p].lastTimeUpdateRef = W.now]
        W1 == listenerSetupEffect(W0, p, src, isPlaying)
        W2 == sourceUpdateEffect(W1, p, src, isPlaying)
        W3 == playPauseEffect(W2, p, src, isPlaying, outcome)
        W4 == initialTimeEffect(W3, p, src, isPlaying)
    IN  secondPlayPauseEffect(W4, p, src, isPlaying, outcome)

\* Update: the cleanups of the effects whose dependencies changed, closed
\* over the previous render, then their bodies with the new props.
UpdateCommit(W, p, old, src, isPlaying, outcome) ==
    LET W1 == IF src # old.src THEN unmountCleanup(W, p, old.src) ELSE W
        W2 == secondPlayPauseCleanup(W1, p, old.src, old.isPlaying)
        W3 == sourceUpdateEffect(W2, p, src, isPlaying)
        W4 == playPauseEffect(W3, p, src, isPlaying, outcome)
        W5 == initialTimeEffect(W4, p, src, isPlaying)
    IN  secondPlayPauseEffect(W5, p, src, isPlaying, outcome)

\* Unmount: every cleanup in declaration order.
UnmountCommit(W, p, pr) ==
    LET W1 == registrationCleanup(W, pr.mountSrc)
        W2 == listenerCleanup(W1, pr.mountIsPlaying, pr.mountSrc)
        W3 == unmountCleanup(W2, p, pr.src)
        W4 == secondPlayPauseCleanup(W3, p, pr.src, pr.isPlaying)
    IN  animationCleanup(W4, p)

\* ------------------------------------------------- listeners on the element
\* handleEnded (lines 415-422), closed over mount's src.
handleEnded(W, p, mountSrc) ==
    IF Includes(W.audio.src, mountSrc)
    THEN onPlayPause(onTimeUpdate([W EXCEPT !.currentTime[p] = 0], p, 0), p)
    ELSE W

\* timeUpdateThreshold (line 91), in milliseconds.
timeUpdateThreshold == 250

\* handleTimeUpdate (lines 399-412), closed over mount's src: once more
\* than the threshold has passed since lastTimeUpdateRef it forwards the
\* position if the loaded source includes src, and restarts the interval
\* either way.
handleTimeUpdate(W, p, mountSrc) ==
    IF W.now - W.refs[p].lastTimeUpdateRef > timeUpdateThreshold
    THEN LET W1 == IF Includes(W.audio.src, mountSrc)
                   THEN onTimeUpdate([W EXCEPT !.currentTime[p] = W.audio.currentTime],
                                     p, W.audio.currentTime)
                   ELSE W
         IN  [W1 EXCEPT !.refs[p].lastTimeUpdateRef = W.now]
    ELSE W

\* handleError (lines 393-396): logs and shows a toast; it calls neither
\* onPlayPause nor audioManager.
handleError(W, p) == Log(W, Ev("toast", p, EmptyString, 0))

\* visibilityChangeHandler (lines 295-300) with document.hidden true.
visibilityChangeHandler(W, p, src, isPlaying) ==
    IF isPlaying /\ W.am.activeSource = src THEN onPlayPause(W, p) ELSE W

\* handleSeek (lines 492-506).
handleSeek(W, p, src, value) ==
    IF Includes(W.audio.src, src)
    THEN onTimeUpdate([W EXCEPT !.audio.currentTime = value,
                                !.currentTime[p] = value], p, value)
    ELSE W

\* updateSlider (lines 462-471), closed over the src of the render that
\* started the loop.
updateSlider(W, p) ==
    LET src == W.refs[p].animationRef
    IN  IF ~W.audio.paused /\ Includes(W.audio.src, src)
        THEN onTimeUpdate([W EXCEPT !.currentTime[p] = W.audio.currentTime],
                          p, W.audio.currentTime)
        ELSE [W EXCEPT !.refs[p].animationRef = NoFrame]

\* Dispatch of one canplay event to the listeners registered when it fires.
RECURSIVE DispatchCanPlay(_, _, _)
DispatchCanPlay(W, hs, outcome) ==
    IF hs = <<>> THEN W
    ELSE DispatchCanPlay(canPlayHandler(W, Head(hs), outcome), Tail(hs), outcome)

\* Dispatch of ended / visibilitychange to the mounted players' listeners.
RECURSIVE DispatchEnded(_, _)
DispatchEnded(W, ps) ==
    IF ps = {} THEN W
    ELSE LET p == CHOOSE q \in ps : \A r \in ps : q <= r
         IN  DispatchEnded(handleEnded(W, p, props[p].mountSrc), ps \ {p})

RECURSIVE DispatchTimeUpdate(_, _)
DispatchTimeUpdate(W, ps) ==
    IF ps = {} THEN W
    ELSE LET p == CHOOSE q \in ps : \A r \in ps : q <= r
         IN  DispatchTimeUpdate(handleTimeUpdate(W, p, props[p].mountSrc), ps \ {p})

RECURSIVE DispatchError(_, _)
DispatchError(W, ps) ==
    IF ps = {} THEN W
    ELSE LET p == CHOOSE q \in ps : \A r \in ps : q <= r
         IN  DispatchError(handleError(W, p), ps \ {p})

RECURSIVE DispatchVisibility(_, _)
DispatchVisibility(W, ps) ==
    IF ps = {} THEN W
    ELSE LET p == CHOOSE q \in ps : \A r \in ps : q <= r
         IN  DispatchVisibility(
                 visibilityChangeHandler(W, p, props[p].src, props[p].isPlaying),
                 ps \ {p})

Mounted == {p \in Players : props[p].mounted}

\* ------------------------------------------------- actions
Unmounted == [mounted |-> FALSE, src |-> EmptyString, isPlaying |-> FALSE,
              mountSrc |-> EmptyString, mountIsPlaying |-> FALSE]
\* A player mounted with isPlaying false on a page where nothing was ever
\* played: its mount effects change nothing but its own props.
Idle(src) == [mounted |-> TRUE, src |-> src, isPlaying |-> FALSE,
              mountSrc |-> src, mountIsPlaying |-> FALSE]
FreshRefs == [sourceChangedRef |-> FALSE, isUpdatingSourceRef |-> FALSE,
              animationRef |-> NoFrame, lastTimeUpdateRef |-> 0]

\* audioManager as the module leaves it once loaded: initialized where
\* window exists (lines 57-60), untouched where it does not.
ModuleLoaded(hasWindow) ==
    LET E == [isInitialized |-> FALSE, activeElement |-> NoElement,
              created |-> 0, returned |-> NoCall]
    IN  IF hasWindow THEN initialize(E) ELSE E

\* The page as loaded, its element without a source, and the players of
\* mountedProps, none of which plays; their mount effects have called
\* getAudioElement.
PageWith(mountedProps, E) ==
    /\ element = IF \E p \in Players : mountedProps[p].mounted
                 THEN getAudioElement(E) ELSE E
    /\ audioManager = [activeSource |-> EmptyString, activePlayerCallback |-> NoCallback]
    /\ audio = [src |-> EmptyString, paused |-> TRUE, currentTime |-> 0, ready |-> FALSE]
    /\ canplayListeners = <<>>
    /\ timers = <<>>
    /\ refs = [p \in Players |-> FreshRefs]
    /\ currentTime = [p \in Players |-> initialTime]
    /\ desiredPlaying = [p \in Players |-> FALSE]
    /\ props = mountedProps
    /\ last = [op |-> "init", player |-> 0, log |-> <<>>]
    /\ inputs = 0
    /\ clock = 0
    /\ forwardedAt = [p \in Players |-> <<>>]
    /\ db = NoRows
    /\ response = NoResponse

Page(mountedProps) == PageWith(mountedProps, ModuleLoaded(TRUE))

Init == Page([p \in Players |-> Unmounted])

\* No closure of an instance in slot p is reachable from world W.
ForgottenIn(W, p) ==
    /\ \A i \in 1..Len(W.canplay) : W.canplay[i].player # p
    /\ \A i \in 1..Len(W.timers) : W.timers[i].player # p
    /\ W.am.activePlayerCallback.player # p
    /\ W.refs[p].animationRef = NoFrame

\* The state the task leaves behind. The component state of an unmounted
\* player is gone, and so are its refs once no closure can reach them. Tasks
\* that would exceed the bounds on pending listeners and timers are not taken.
\* What a task consumes of the environment's inputs: a gesture of the user
\* or a change of the owning UI (mount, unmount, click, seek, new src), a
\* page or media event (hidden, ended), and a refusal of play() by the host.
\* Timers, ready signals, frames, playback progress and re-renders that
\* apply an intent already signalled are consequences and cost nothing.
InputOps == {"mount", "unmount", "click", "seek", "src", "hidden", "ended", "error",
             "cleanup"}
Refused(log) == \E i \in 1..Len(log) : log[i].call = "play" /\ log[i].value = 0
Cost(op, log) == (IF op \in InputOps THEN 1 ELSE 0) + (IF Refused(log) THEN 1 ELSE 0)

Commit(task, newProps, op, p) ==
    \E W \in {task} :
        /\ inputs + Cost(op, W.log) <= MaxInputs
        /\ inputs' = inputs + Cost(op, W.log)
        /\ Len(W.canplay) <= MaxListeners
        /\ Len(W.timers) <= MaxTimers
        /\ props' = newProps
        /\ audioManager' = W.am
        /\ audio' = W.audio
        /\ canplayListeners' = W.canplay
        /\ timers' = W.timers
        /\ refs' = [q \in Players |->
                      IF ~newProps[q].mounted /\ ForgottenIn(W, q)
                      THEN FreshRefs ELSE W.refs[q]]
        /\ currentTime' = [q \in Players |->
                      IF newProps[q].mounted THEN W.currentTime[q] ELSE initialTime]
        /\ desiredPlaying' = [q \in Players |->
                      IF newProps[q].mounted THEN W.desired[q] ELSE FALSE]
        /\ last' = [op |-> op, player |-> p, log |-> W.log]
        /\ element' = IF op = "initialize" THEN initialize(element)
                      ELSE IF op \in {"mount", "getAudioElement"}
                      THEN getAudioElement(element)
                      ELSE element
        /\ clock' = W.now
        /\ forwardedAt' = [q \in Players |->
                      IF ~newProps[q].mounted \/ (op = "mount" /\ q = p) THEN <<>>
                      ELSE IF op = "timeupdate"
                              /\ \E i \in 1..Len(W.log) :
                                     /\ W.log[i].call = "onTimeUpdate"
                                     /\ W.log[i].player = q
                      THEN <<W.now>>
                      ELSE forwardedAt[q]]
        /\ UNCHANGED <<db, response>>

\* A new instance takes the lowest slot that is free: unmounted, and with
\* no closure of the slot's previous instance still reachable.
Free(p) == ~props[p].mounted /\ ForgottenIn(World, p)

Mount(p, src, isPlaying, outcome) ==
    /\ Free(p)
    /\ \A q \in 1..(p - 1) : ~Free(q)
    /\ Commit(MountCommit([World EXCEPT !.desired[p] = isPlaying],
                          p, src, isPlaying, outcome),
              [props EXCEPT ![p] = [mounted |-> TRUE, src |-> src,
                     isPlaying |-> isPlaying, mountSrc |-> src,
                     mountIsPlaying |-> isPlaying]],
              "mount", p)

\* Re-render of p with the owning UI's current intent and src.
Rerender(p, src, outcome) ==
    /\ props[p].mounted
    /\ src # props[p].src \/ desiredPlaying[p] # props[p].isPlaying
    /\ Commit(UpdateCommit(World, p, props[p], src, desiredPlaying[p], outcome),
              [props EXCEPT ![p].src = src, ![p].isPlaying = desiredPlaying[p]],
              IF src # props[p].src THEN "src" ELSE "render", p)

Unmount(p) ==
    /\ props[p].mounted
    /\ Commit(UnmountCommit(World, p, props[p]),
              [props EXCEPT ![p] = Unmounted], "unmount", p)

\* Click on the play/pause button (onClick={onPlayPause}).
ClickPlayPause(p) ==
    /\ props[p].mounted
    /\ Commit(onPlayPause(World, p), props, "click", p)

Seek(p, value) ==
    /\ props[p].mounted
    /\ Commit(handleSeek(World, p, props[p].src, value), props, "seek", p)

\* The element signals canplay.
CanPlay(outcome) ==
    /\ audio.ready
    /\ Commit(DispatchCanPlay([World EXCEPT !.audio.ready = FALSE],
                              canplayListeners, outcome), props, "canplay", 0)

\* A timer may run once no timer registered before it with a delay that is
\* not longer (100 ms updating, 1000 ms fallback) is still pending.
Due(i) ==
    \A j \in 1..(i - 1) :
        timers[i].kind = "updating" /\ timers[j].kind = "fallback"

DropTimer(W, i) ==
    [W EXCEPT !.timers = SubSeq(@, 1, i - 1) \o SubSeq(@, i + 1, Len(@))]

TimerFires(i, outcome) ==
    /\ i \in 1..Len(timers)
    /\ Due(i)
    /\ LET W == DropTimer(World, i)
           t == timers[i]
       IN  IF t.kind = "updating"
           THEN Commit(updatingTimer(W, t), props, "updatingTimer", t.player)
           ELSE Commit(fallbackTimer(W, t, outcome), props, "fallbackTimer", t.player)

AnimationFrame(p) ==
    /\ refs[p].animationRef # NoFrame
    /\ Commit(updateSlider(World, p), props, "frame", p)

\* Playback advances.
Progress ==
    /\ ~audio.paused
    /\ audio.currentTime < MaxTime
    /\ Commit([World EXCEPT !.audio.currentTime = @ + 1], props, "progress", 0)

\* Playback reaches the end of the media, wherever that is: the element
\* pauses and signals ended.
Ended ==
    /\ ~audio.paused
    /\ Commit(DispatchEnded([World EXCEPT !.audio.paused = TRUE], Mounted),
              props, "ended", 0)

\* While it plays the element signals timeupdate to the listeners of the
\* mounted players.
TimeUpdate ==
    /\ ~audio.paused
    /\ Commit(DispatchTimeUpdate(World, Mounted), props, "timeupdate", 0)

\* Time passes.
Tick ==
    /\ clock + TickMs <= MaxClock
    /\ Commit([World EXCEPT !.now = @ + TickMs], props, "tick", 0)

\* The element fails to load or decode its source and signals error: no
\* ready signal follows.
MediaError ==
    /\ audio.src # EmptyString
    /\ Commit(DispatchError([World EXCEPT !.audio.ready = FALSE], Mounted),
              props, "error", 0)

\* audioManager.cleanup() is called by code outside the component.
Cleanup ==
    /\ Commit(cleanup(World), props, "cleanup", 0)

\* A call of audioManager.initialize() / getAudioElement() on its own.
Initialize ==
    /\ Commit(World, props, "initialize", 0)

GetAudioElement ==
    /\ Commit(World, props, "getAudioElement", 0)

\* The page becomes hidden.
VisibilityHidden ==
    /\ Commit(DispatchVisibility(World, Mounted), props, "hidden", 0)

\* Re-render that applies the owning UI's intent, src unchanged.
ApplyIntent(p, outcome) == Rerender(p, props[p].src, outcome)

\* ------------------------------------------------- specifications
\* Spec: the ownership protocol over the whole life cycle of the players,
\* from the empty page; positions are not reported or changed.
Next ==
    \/ \E p \in Players, src \in Sources, isPlaying \in BOOLEAN, o \in PlayOutcomes :
           Mount(p, src, isPlaying, o)
    \/ \E p \in Players, src \in Sources, o \in PlayOutcomes : Rerender(p, src, o)
    \/ \E p \in Players : Unmount(p)
    \/ \E p \in Players : ClickPlayPause(p)
    \/ \E o \in PlayOutcomes : CanPlay(o)
    \/ \E i \in 1..MaxTimers, o \in PlayOutcomes : TimerFires(i, o)
    \/ Ended
    \/ VisibilityHidden

Spec == Init /\ [][Next]_vars

\* SpecSeek: two mounted players, the source of the first containing or not
\* containing the source of the second, their positions and the
\* reporting loop; no mount, unmount or change of src.
InitSeek ==
    \E s2 \in {rec1, rec2} :
        Page([p \in Players |-> IF p = 1 THEN Idle(rec12) ELSE Idle(s2)])

NextSeek ==
    \/ \E p \in Players : ClickPlayPause(p)
    \/ \E p \in Players, o \in PlayOutcomes : ApplyIntent(p, o)
    \/ \E p \in Players, v \in 0..MaxTime : Seek(p, v)
    \/ \E o \in PlayOutcomes : CanPlay(o)
    \/ \E i \in 1..MaxTimers, o \in PlayOutcomes : TimerFires(i, o)
    \/ \E p \in Players : AnimationFrame(p)
    \/ Progress
    \/ Ended

SpecSeek == InitSeek /\ [][NextSeek]_vars

\* ------------------------------------------------- vocabulary of the claims
\* Every intent the owning UI holds has been rendered.
IntentsApplied == \A p \in Mounted : desiredPlaying[p] = props[p].isPlaying

Playing == {p \in Mounted : props[p].isPlaying}

Cleared == /\ audioManager.activeSource = EmptyString
           /\ audioManager.activePlayerCallback = NoCallback

\* Player a holds active ownership: the coordinator stores its source and
\* its deactivation callback.
ActivePlayer(a) ==
    /\ props[a].mounted
    /\ audioManager.activeSource = props[a].src
    /\ audioManager.activePlayerCallback = Callback(a, TRUE)

\* Positions in a log of the calls of kind call made for player p.
Calls(log, call, p) == {i \in 1..Len(log) : log[i].call = call /\ log[i].player = p}
PlayCalls(log) == {i \in 1..Len(log) : log[i].call = "play"}

\* The step is a commit of b (mount or update) that ran the play branch of
\* its play/pause effects.
PlayRequest(b) ==
    /\ props'[b].mounted
    /\ props'[b].isPlaying
    /\ props'[b] # props[b]

\* The step is the update of p that renders isPlaying false, src unchanged.
PauseRender(p) ==
    /\ props[p].mounted
    /\ props'[p].mounted
    /\ props[p].isPlaying
    /\ ~props'[p].isPlaying
    /\ props'[p].src = props[p].src

\* ------------------------------------------------- scenarios
\* SpecSingle: one player alone on the page, over its whole life cycle; its
\* src prop is any string, the empty one included.
NextSingle ==
    \/ \E src \in Sources \cup {EmptyString}, isPlaying \in BOOLEAN, o \in PlayOutcomes :
           Mount(1, src, isPlaying, o)
    \/ \E o \in PlayOutcomes : ApplyIntent(1, o)
    \/ Unmount(1)
    \/ ClickPlayPause(1)
    \/ \E o \in PlayOutcomes : CanPlay(o)
    \/ \E i \in 1..MaxTimers, o \in PlayOutcomes : TimerFires(i, o)
    \/ VisibilityHidden

SpecSingle == Init /\ [][NextSingle]_vars

\* SpecHandoff: player 1 (rec1) is asked to play; once it owns the
\* coordinator and the element plays, player 2 (rec2) is asked to play.
\* The host accepts every play(); nothing else is requested.
InitHandoff ==
    Page([p \in Players |-> IF p = 1 THEN Idle(rec1) ELSE Idle(rec2)])

RequestA == inputs = 0 /\ ClickPlayPause(1)

RequestB ==
    /\ inputs = 1
    /\ ActivePlayer(1)
    /\ props[1].isPlaying
    /\ audio.src = rec1
    /\ ~audio.paused
    /\ ClickPlayPause(2)

NextHandoff ==
    \/ RequestA
    \/ RequestB
    \/ \E p \in Players : ApplyIntent(p, "resolved")
    \/ CanPlay("resolved")
    \/ \E i \in 1..MaxTimers : TimerFires(i, "resolved")
    \/ \E p \in Players : AnimationFrame(p)
    \/ Progress

SpecHandoff == InitHandoff /\ [][NextHandoff]_vars

\* SpecReject: one player alone on the page, with a host that may refuse
\* play() in each of the ways the element can, and media that may fail.
NextReject ==
    \/ \E src \in Sources, isPlaying \in BOOLEAN, o \in HostOutcomes :
           Mount(1, src, isPlaying, o)
    \/ \E o \in HostOutcomes : ApplyIntent(1, o)
    \/ Unmount(1)
    \/ ClickPlayPause(1)
    \/ \E o \in HostOutcomes : CanPlay(o)
    \/ \E i \in 1..MaxTimers, o \in HostOutcomes : TimerFires(i, o)
    \/ MediaError

SpecReject == Init /\ [][NextReject]_vars

\* SpecCleanup: two mounted players (rec1, rec2) that play, pause and hand
\* over, on a page where audioManager.cleanup() may be called at any time.
NextCleanup ==
    \/ \E p \in Players : ClickPlayPause(p)
    \/ \E p \in Players, o \in PlayOutcomes : ApplyIntent(p, o)
    \/ \E o \in PlayOutcomes : CanPlay(o)
    \/ \E i \in 1..MaxTimers, o \in PlayOutcomes : TimerFires(i, o)
    \/ Ended
    \/ Cleanup

SpecCleanup == InitHandoff /\ [][NextCleanup]_vars

\* SpecElement: one player on a page whose module was loaded with or
\* without a window, with initialize and getAudioElement called at any time.
InitElement ==
    \E hasWindow \in BOOLEAN :
        PageWith([p \in Players |-> Unmounted], ModuleLoaded(hasWindow))

NextElement ==
    \/ Initialize
    \/ GetAudioElement
    \/ \E src \in Sources, isPlaying \in BOOLEAN : Mount(1, src, isPlaying, "resolved")
    \/ ApplyIntent(1, "resolved")
    \/ Unmount(1)
    \/ ClickPlayPause(1)
    \/ CanPlay("resolved")
    \/ \E i \in 1..MaxTimers : TimerFires(i, "resolved")

SpecElement == InitElement /\ [][NextElement]_vars

\* SpecLive: one player over its whole life, its src rec1 or rec2, every
\* play() accepted. A pending timer expires (setTimeout, lines 320-327 and
\* 384-386); whether the element ever signals canplay is left open.
NextLive ==
    \/ \E src \in {rec1, rec2}, isPlaying \in BOOLEAN : Mount(1, src, isPlaying, "resolved")
    \/ \E src \in {rec1, rec2} : Rerender(1, src, "resolved")
    \/ ClickPlayPause(1)
    \/ CanPlay("resolved")
    \/ \E i \in 1..MaxTimers : TimerFires(i, "resolved")

TimersLive == \E i \in 1..MaxTimers : TimerFires(i, "resolved")

SpecLive == Init /\ [][NextLive]_vars /\ WF_vars(TimersLive)

\* Player a's source swap is pending: a canplay handler of a is registered
\* on the element and a fallback timer of a is running.
SwapPending(a) ==
    /\ \E i \in 1..Len(canplayListeners) : canplayListeners[i].player = a
    /\ \E j \in 1..Len(timers) :
           timers[j].kind = "fallback" /\ timers[j].player = a

\* SpecSwap: player 1 (rec1) is asked to play; while its swap is pending,
\* player 2 (rec2) is asked to play. The host accepts every play(), a
\* pending timer expires, nothing else is requested.
RequestBDuringSwap ==
    /\ inputs = 1
    /\ props[1].isPlaying
    /\ SwapPending(1)
    /\ ClickPlayPause(2)

NextSwap ==
    \/ RequestA
    \/ RequestBDuringSwap
    \/ \E p \in Players : ApplyIntent(p, "resolved")
    \/ CanPlay("resolved")
    \/ \E i \in 1..MaxTimers : TimerFires(i, "resolved")

SpecSwap == InitHandoff /\ [][NextSwap]_vars /\ WF_vars(TimersLive)

\* SpecLoop: two players (rec1, rec2) over their whole life, with the
\* sampling loops and playback progress; every play() accepted, src fixed.
NextLoop ==
    \/ \E p \in Players, src \in {rec1, rec2}, isPlaying \in BOOLEAN :
           Mount(p, src, isPlaying, "resolved")
    \/ \E p \in Players : ApplyIntent(p, "resolved")
    \/ \E p \in Players : Unmount(p)
    \/ \E p \in Players : ClickPlayPause(p)
    \/ CanPlay("resolved")
    \/ \E i \in 1..MaxTimers : TimerFires(i, "resolved")
    \/ \E p \in Players : AnimationFrame(p)
    \/ Progress

SpecLoop == Init /\ [][NextLoop]_vars

\* SpecTime: two mounted players, the first with src rec12 and the second
\* with rec1 or rec2, request and withdraw play while time passes and the
\* playing element signals timeupdate; every play() accepted.
NextTime ==
    \/ \E p \in Players : ClickPlayPause(p)
    \/ \E p \in Players : ApplyIntent(p, "resolved")
    \/ CanPlay("resolved")
    \/ \E i \in 1..MaxTimers : TimerFires(i, "resolved")
    \/ TimeUpdate
    \/ Tick

SpecTime == InitSeek /\ [][NextTime]_vars

\* Nothing is left to process: no timer pending, no ready signal due and
\* every intent rendered.
Quiescent == timers = <<>> /\ ~audio.ready /\ IntentsApplied

\* ------------------------------------------------- claims

\* C1: at most one Player is active: once every signalled intent has been
\* rendered, no two mounted Players have isPlaying = true.
C1_AtMostOnePlaying ==
    IntentsApplied => Cardinality(Playing) <= 1

C3_UnmountActiveReleases ==
    [][\A p \in Players :
         ( /\ ActivePlayer(p)
           /\ ~audio.paused
           /\ Includes(audio.src, props[p].src)
           /\ ~props'[p].mounted )
         => /\ audioManager'.activeSource = EmptyString
            /\ audioManager'.activePlayerCallback = NoCallback
            /\ audio'.paused
    ]_vars

\* C5: activeSource is the empty string exactly when activePlayerCallback
\* is null.
C5_SourceAndCallbackTogether ==
    (audioManager.activeSource = EmptyString)
        <=> (audioManager.activePlayerCallback = NoCallback)

\* C6: rendering isPlaying false on a Player that is not the active player
\* leaves the element's paused flag and source and the coordinator's
\* activeSource and callback as they were.
C6_PauseOfNonActiveIsNoOp ==
    [][\A p \in Players :
         (PauseRender(p) /\ audioManager.activeSource # props[p].src)
         => /\ audio'.paused = audio.paused
            /\ audio'.src = audio.src
            /\ audioManager' = audioManager
    ]_vars

\* The element as the claims about inert players see it.
Playback == <<audio.paused, audio.src, audio.currentTime>>

\* C4: a Player that is not the active player for its source is inert:
\* its update rendering isPlaying false, its seek handler, its fallback
\* timers and its canplay handlers leave the element's paused flag, source
\* and position as they were.
C4_NonActiveIsInert ==
    [][/\ \A p \in Players :
            ( /\ props[p].mounted
              /\ audioManager.activeSource # props[p].src
              /\ last'.player = p
              /\ \/ last'.op = "seek"
                 \/ last'.op = "render" /\ ~props'[p].isPlaying )
            => Playback' = Playback
       /\ \A i \in 1..Len(timers) :
            ( /\ timers[i].kind = "fallback"
              /\ audioManager.activeSource # timers[i].src
              /\ timers' = DropTimer(World, i).timers
              /\ last'.op = "fallbackTimer" )
            => Playback' = Playback
       /\ ( /\ last'.op = "canplay"
            /\ \A i \in 1..Len(canplayListeners) :
                 audioManager.activeSource # canplayListeners[i].src )
            => Playback' = Playback
    ]_vars

\* C9: when the page becomes hidden while a Player is active (isPlaying and
\* activeSource = its src) the Player signals pause intent, and the update
\* that applies that intent leaves the Player idle, the element paused and
\* the coordinator cleared.
C9_HiddenPausesActive ==
    [][\A p \in Players :
         /\ ( /\ props[p].mounted
              /\ props[p].isPlaying
              /\ audioManager.activeSource = props[p].src
              /\ last'.op = "hidden" )
            => /\ Calls(last'.log, "onPlayPause", p) # {}
               /\ desiredPlaying'[p] = ~desiredPlaying[p]
         /\ ( /\ last.op = "hidden"
              /\ Calls(last.log, "onPlayPause", p) # {}
              /\ audioManager.activeSource = props[p].src
              /\ PauseRender(p) )
            => /\ ~props'[p].isPlaying
               /\ audio'.paused
               /\ Cleared'
    ]_vars

\* C10: handleSeek on a Player whose source is not the source loaded in the
\* element changes neither the element's position nor the Player's reported
\* position, and does not call onTimeUpdate.
C10_SeekOnUnloadedSourceIsNoOp ==
    [][\A p \in Players :
         ( /\ props[p].mounted
           /\ audio.src # props[p].src
           /\ last'.op = "seek"
           /\ last'.player = p )
         => /\ audio'.currentTime = audio.currentTime
            /\ currentTime'[p] = currentTime[p]
            /\ Calls(last'.log, "onTimeUpdate", p) = {}
    ]_vars

\* The ready signal is late for every handler still registered: the
\* fallback timer registered with it has already run.
LateCanPlay ==
    /\ canplayListeners # <<>>
    /\ \A i \in 1..Len(canplayListeners) : \A j \in 1..Len(timers) :
           timers[j].kind = "fallback" => timers[j].id # canplayListeners[i].id

\* C7: for a single Player whose play request swapped the source and whose
\* ready signal did not arrive before the 1000 ms fallback, the fallback
\* timers invoke play() exactly once (the first does, the others do not),
\* and a ready signal that arrives afterwards invokes play() no more.
C7_TimeoutPlaysOnce ==
    [][/\ ( /\ last'.op = "fallbackTimer"
            /\ props[1].isPlaying
            /\ Head(timers).src = props[1].src
            /\ audio.src = props[1].src
            /\ audio.paused
            /\ refs[1].sourceChangedRef )
          => Cardinality(PlayCalls(last'.log)) = 1
       /\ ( /\ last'.op = "fallbackTimer"
            /\ ~refs[1].sourceChangedRef )
          => PlayCalls(last'.log) = {}
       /\ ( /\ last'.op = "canplay"
            /\ LateCanPlay )
          => PlayCalls(last'.log) = {}
    ]_vars

\* C8: after player A (rec1) became active and player B (rec2) was then
\* asked to play, once everything is processed A is idle, the element has
\* rec2 loaded and plays, B is playing and activeSource is rec2.
C8_HandoffEndsOnB ==
    (inputs = 2 /\ Quiescent)
    => /\ ~props[1].isPlaying
       /\ audio.src = rec2
       /\ ~audio.paused
       /\ props[2].isPlaying
       /\ audioManager.activeSource = rec2

\* The calls of play() for p in a log that the host refused.
RefusedPlays(log, p) == {i \in Calls(log, "play", p) : log[i].value = 0}

\* C11: whenever the host refuses a Player's play() (rejected promise of any
\* kind, or a throw), the Player's desiredPlaying is false afterwards, and
\* the update that applies that intent leaves the coordinator cleared.
C11_RefusedPlayReverts ==
    [][\A p \in Players :
         /\ RefusedPlays(last'.log, p) # {} => ~desiredPlaying'[p]
         /\ ( /\ RefusedPlays(last.log, p) # {}
              /\ PauseRender(p) )
            => Cleared'
    ]_vars

\* C12: when the element signals a media error while a Player is active for
\* the failing source, that Player's desiredPlaying is false afterwards, and
\* the update that applies that intent leaves the coordinator cleared.
C12_MediaErrorReturnsToIdle ==
    [][\A p \in Players :
         /\ ( /\ props[p].mounted
              /\ props[p].isPlaying
              /\ audioManager.activeSource = props[p].src
              /\ audio.src = props[p].src
              /\ last'.op = "error" )
            => ~desiredPlaying'[p]
         /\ ( /\ last.op = "error"
              /\ audioManager.activeSource = props[p].src
              /\ PauseRender(p) )
            => Cleared'
    ]_vars

\* C13: a setActivePlayer call made while activeSource equals the source
\* passed invokes no callback, and every invocation of a stored callback is
\* made by a setActivePlayer call whose source differed from activeSource.
C13_SameSourceNotifiesNobody ==
    \A i \in 1..Len(last.log) :
        /\ ( /\ last.log[i].call = "setActivePlayer"
             /\ last.log[i].value = 1
             /\ i < Len(last.log) )
           => last.log[i + 1].call # "callback"
        /\ last.log[i].call = "callback"
           => /\ i > 1
              /\ last.log[i - 1].call = "setActivePlayer"
              /\ last.log[i - 1].value = 0

\* C13 witness: a Player was mounted playing the source that another
\* mounted, playing Player already held in the coordinator.
C13_Witness ==
    /\ last.op = "mount"
    /\ \E i \in 1..Len(last.log) :
         /\ last.log[i].call = "setActivePlayer"
         /\ last.log[i].value = 1
         /\ \A j \in 1..(i - 1) : last.log[j].call # "setActivePlayer"
    /\ \E a \in Mounted \ {last.player} :
         /\ props[a].isPlaying
         /\ props[a].src = props[last.player].src

\* C14: after audioManager.cleanup(), from any state, the element is paused
\* with an empty source, activeSource is '' and the callback is null.
C14_CleanupResetsEverything ==
    [][last'.op = "cleanup"
         => /\ audio'.paused
            /\ audio'.src = EmptyString
            /\ audioManager'.activeSource = EmptyString
            /\ audioManager'.activePlayerCallback = NoCallback
    ]_vars

\* C14 witness: cleanup ran while a Player was rendered playing and a
\* canplay handler was still registered on the element.
C14_Witness ==
    /\ last.op = "cleanup"
    /\ Playing # {}
    /\ canplayListeners # <<>>
    /\ Calls(last.log, "pause", 0) # {}

\* C15: at most one element is ever created, and every getAudioElement
\* call returns that element, never null, whether initialize ran before it
\* or not.
C15_OneElement ==
    /\ element.created <= 1
    /\ element.returned \in {NoCall, 1}
    /\ element.isInitialized => element.activeElement = 1

\* C15 witness: initialize was called again after getAudioElement had
\* returned the element to a mounted Player.
C15_Witness ==
    /\ last.op = "initialize"
    /\ element.returned = 1
    /\ Mounted # {}

\* C16: whenever the shared element plays, audioManager.activeSource is
\* non-empty and is the source the element has loaded.
C16_PlayingIsTheActiveSource ==
    ~audio.paused => /\ audioManager.activeSource # EmptyString
                     /\ audioManager.activeSource = audio.src

\* play() was just invoked for Player p on the element holding p's src, or
\* the element plays p's src.
Started(p) ==
    \/ \E i \in PlayCalls(last.log) :
           last.log[i].player = p /\ last.log[i].src = props[p].src
    \/ ~audio.paused /\ audio.src = props[p].src

\* Player p is rendered with isPlaying = true and its owner still wants it
\* to play.
Requested(p) == props[p].mounted /\ props[p].isPlaying /\ desiredPlaying[p]

\* C17: a Player rendered with isPlaying = true, alone on the page,
\* eventually has play() invoked with its own source loaded, unless the
\* request is withdrawn first (pause or unmount).
C17_PlayRequestIsServed == Requested(1) ~> (Started(1) \/ ~Requested(1))

\* C18: when B (rec2) requests play while A's (rec1) swap is pending, the
\* element eventually plays rec2, and no canplay or fallback-timer task that
\* finds rec2 loaded for the requesting B loads another source.
C18_RequestDuringPendingSwap ==
    /\ Requested(2) ~> (~audio.paused /\ audio.src = rec2)
    /\ [][(/\ last'.op \in {"canplay", "fallbackTimer"}
           /\ Requested(2)
           /\ audio.src = rec2)
          => audio'.src = rec2]_vars

\* The i-th call of a log assigns a new source and loads it.
SwapAt(log, i) == log[i].call = "load" /\ log[i].src # EmptyString

\* Player p waits for the source it had loaded: the ready signal is due, its
\* canplay handler is registered, its fallback timer is running and neither
\* has cleared sourceChangedRef.
Waiting(p) ==
    /\ audio.ready
    /\ audio.src = props[p].src
    /\ refs[p].sourceChangedRef
    /\ SwapPending(p)

\* C19: every swap is pause, clear source (and load), assign the new source
\* and load, in that order; no play() follows it in the same task, and no
\* task other than the ready signal or a fallback expiry invokes play()
\* while a Player waits for its swap.
C19_SwapOrderThenWait ==
    [][/\ \A i \in 1..Len(last'.log) :
              SwapAt(last'.log, i)
              => /\ i >= 3
                 /\ last'.log[i - 1].call = "load"
                 /\ last'.log[i - 1].src = EmptyString
                 /\ last'.log[i - 2].call = "pause"
                 /\ \A j \in PlayCalls(last'.log) : j < i
       /\ ( /\ \E p \in Mounted : Waiting(p)
            /\ last'.op \notin {"canplay", "fallbackTimer"} )
          => PlayCalls(last'.log) = {}
    ]_vars

\* C20: rendering isPlaying false on the Player whose src is activeSource
\* leaves the element paused and the coordinator's activeSource and callback
\* cleared.
C20_PauseOfActiveClears ==
    [][\A p \in Players :
         (PauseRender(p) /\ audioManager.activeSource = props[p].src)
         => /\ audio'.paused
            /\ Cleared'
    ]_vars

\* C21: a task that invokes the deactivation callback of Player p leaves
\* p's desiredPlaying false, whatever other pause signals of p were
\* already pending.
C21_DeactivationLeavesPaused ==
    [][\A p \in Players :
         (props[p].mounted /\ Calls(last'.log, "callback", p) # {})
         => ~desiredPlaying'[p]
    ]_vars

\* C22: on the ended signal the mounted Player whose current src is the
\* loaded source resets its position, forwards zero and signals pause
\* intent; every other mounted Player keeps its position and intent and
\* calls nothing.
C22_EndedReachesTheLoadedPlayer ==
    [][last'.op = "ended"
       => \A p \in Mounted :
            /\ audio.src = props[p].src
               => /\ currentTime'[p] = 0
                  /\ Calls(last'.log, "onTimeUpdate", p) # {}
                  /\ Calls(last'.log, "onPlayPause", p) # {}
            /\ audio.src # props[p].src
               => /\ currentTime'[p] = currentTime[p]
                  /\ desiredPlaying'[p] = desiredPlaying[p]
                  /\ Calls(last'.log, "onTimeUpdate", p) = {}
                  /\ Calls(last'.log, "onPlayPause", p) = {}
    ]_vars

\* Player q is active and playing: it is rendered playing, the coordinator
\* stores its src and the element plays that source.
ActiveAndPlaying(q) ==
    /\ props[q].mounted
    /\ props[q].isPlaying
    /\ audioManager.activeSource = props[q].src
    /\ audio.src = props[q].src
    /\ ~audio.paused

\* The step mounts p, unmounts p, or renders p with isPlaying false.
MountPauseOrUnmount(p) ==
    \/ last'.op \in {"mount", "unmount"} /\ last'.player = p
    \/ PauseRender(p)

\* C23: while q is active and playing, mounting, pausing or unmounting
\* another Player p of the same source leaves the element playing and the
\* coordinator's source and callback set, and toggles neither intent.
C23_TwinIsHarmless ==
    [][\A p, q \in Players :
         ( /\ p # q
           /\ ActiveAndPlaying(q)
           /\ MountPauseOrUnmount(p)
           /\ (IF props[p].mounted THEN props[p].src ELSE props'[p].src)
                  = props[q].src )
         => /\ ~audio'.paused
            /\ audioManager'.activeSource = audioManager.activeSource
            /\ audioManager'.activePlayerCallback # NoCallback
            /\ Calls(last'.log, "onPlayPause", p) = {}
            /\ Calls(last'.log, "onPlayPause", q) = {}
    ]_vars

\* C24: while the loaded source is not Player p's own src, p does not
\* seek the element, does not react to ended, forwards no position from its
\* sampling loop and does not pause the element when rendered idle.
C24_LoadedMeansOwnSource ==
    [][\A p \in Mounted :
         (audio.src # EmptyString /\ audio.src # props[p].src)
         => /\ (last'.op = "seek" /\ last'.player = p)
               => /\ audio'.currentTime = audio.currentTime
                  /\ Calls(last'.log, "onTimeUpdate", p) = {}
            /\ last'.op = "ended"
               => /\ Calls(last'.log, "onTimeUpdate", p) = {}
                  /\ Calls(last'.log, "onPlayPause", p) = {}
            /\ (last'.op = "frame" /\ last'.player = p)
               => Calls(last'.log, "onTimeUpdate", p) = {}
            /\ PauseRender(p) => audio'.paused = audio.paused
    ]_vars

\* C25: while a Player is rendered playing and the element plays its
\* source, a frame of the Player's sampling loop is pending.
C25_ActiveIsSampled ==
    \A p \in Mounted :
        (props[p].isPlaying /\ ~audio.paused /\ audio.src = props[p].src)
        => refs[p].animationRef # NoFrame

\* C26: a cycle of Player p's sampling loop forwards a position only when
\* the element is not paused and has p's src loaded, and in any other cycle
\* it schedules no further one.
C26_LoopStopsWhenNotPlayingOwn ==
    [][\A p \in Mounted :
         (last'.op = "frame" /\ last'.player = p)
         => IF ~audio.paused /\ audio.src = props[p].src
            THEN TRUE
            ELSE /\ Calls(last'.log, "onTimeUpdate", p) = {}
                 /\ currentTime'[p] = currentTime[p]
                 /\ refs'[p].animationRef = NoFrame
    ]_vars

\* ------------------------------------------------- meeting outcome actions
\* The server actions of src/unnamed/part_000 over the tables they read and
\* the meetingOutcome table they write. Each action runs as one step.
MaxOutcomeId == 2

\* JavaScript's undefined (also a column without a value) and null.
Undefined == "undefined"
Null == "null value"
Falsy(v) == v \in {Undefined, Null, ""}

Users == {"u1", "u2"}
\* Any participant role other than organizer and editor.
OtherRole == "viewer"

\* JSON.stringify({additionalPrompt, focusParticipantId}) (lines 451-454):
\* a key whose value is undefined is left out.
JSONstringify(o) ==
    LET a == IF o.additionalPrompt = Undefined THEN ""
             ELSE "\"additionalPrompt\":\"" \o o.additionalPrompt \o "\""
        f == IF o.focusParticipantId = Undefined THEN ""
             ELSE "\"focusParticipantId\":\"" \o o.focusParticipantId \o "\""
        sep == IF a # "" /\ f # "" THEN "," ELSE ""
    IN  "{" \o a \o sep \o f \o "}"

\* The meta strings of the model: the ones generateMeetingOutcome writes and
\* others a caller of createMeetingOutcome can store.
Metas == {Undefined, "", "not json", "null", "7", "{}",
          "{\"additionalPrompt\":\"p\"}",
          "{\"focusParticipantId\":\"u1\"}",
          "{\"focusParticipantId\":\"u2\"}",
          "{\"additionalPrompt\":\"p\",\"focusParticipantId\":\"u2\"}",
          "{\"focusParticipantId\":null}",
          "{\"focusParticipantId\":\"\"}"}

\* JSON.parse (line 153) on the strings of Metas: a SyntaxError, null, a
\* primitive, or an object with the keys it holds.
JSONparse(s) ==
    LET object(a, f) == [threw |-> FALSE, kind |-> "object",
                         additionalPrompt |-> a, focusParticipantId |-> f]
    IN  CASE s = "null" -> [threw |-> FALSE, kind |-> "null"]
          [] s = "7" -> [threw |-> FALSE, kind |-> "primitive"]
          [] s = "{}" -> object(Undefined, Undefined)
          [] s = "{\"additionalPrompt\":\"p\"}" -> object("p", Undefined)
          [] s = "{\"focusParticipantId\":\"u1\"}" -> object(Undefined, "u1")
          [] s = "{\"focusParticipantId\":\"u2\"}" -> object(Undefined, "u2")
          [] s = "{\"additionalPrompt\":\"p\",\"focusParticipantId\":\"u2\"}"
               -> object("p", "u2")
          [] s = "{\"focusParticipantId\":null}" -> object(Undefined, Null)
          [] s = "{\"focusParticipantId\":\"\"}" -> object(Undefined, "")
          [] OTHER -> [threw |-> TRUE, kind |-> "SyntaxError"]

\* db.query.X.findFirst: a row that matches, or undefined (NoRow).
NoRow == [row |-> Undefined]
findFirst(rows) == IF rows = {} THEN NoRow ELSE CHOOSE r \in rows : TRUE

Error(D, message) == [db |-> D, result |-> [error |-> message]]
Data(D, value) == [db |-> D, result |-> [data |-> value]]

findMeeting(D, meetingId) == findFirst({m \in D.meeting : m.id = meetingId})
findWorkspaceUser(D, workspaceId, userId) ==
    findFirst({w \in D.workspaceUser :
                  w.workspaceId = workspaceId /\ w.userId = userId})
findParticipant(D, meetingId, userId) ==
    findFirst({r \in D.meetingParticipant :
                  r.meetingId = meetingId /\ r.userId = userId})
findOutcome(D, outcomeId) ==
    findFirst({o \in D.meetingOutcome : o.id = outcomeId})

\* participant?.role
RoleOf(participant) == IF participant = NoRow THEN Undefined ELSE participant.role

\* db.insert(meetingOutcome).values(...).returning()
insertOutcome(D, meetingId, type, content, meta, userId) ==
    LET row == [id |-> D.nextId, meetingId |-> meetingId, type |-> type,
                content |-> content, meta |-> meta, createdById |-> userId,
                updatedAt |-> <<>>]
    IN  Data([D EXCEPT !.meetingOutcome = @ \cup {row}, !.nextId = @ + 1], row)

\* canEdit without the participant roles.
canEditCreateIgnoresRoles(userWorkspace, meetingData, participant, userId) ==
    TRUE

\* canEdit of createMeetingOutcome (lines 70-74) and of
\* generateMeetingOutcome (lines 386-390).
canEditCreate(userWorkspace, meetingData, participant, userId) ==
    \/ userWorkspace.role = "admin"
    \/ meetingData.createdById = userId
    \/ RoleOf(participant) = "organizer"
    \/ RoleOf(participant) = "editor"

\* createMeetingOutcome (lines 19-98).
createMeetingOutcome(D, session, meetingId, type, content, meta) ==
    IF session = Undefined THEN Error(D, "Unauthorized")
    ELSE LET userId == session
             meetingData == findMeeting(D, meetingId)
         IN  IF meetingData = NoRow THEN Error(D, "Meeting not found")
             ELSE LET userWorkspace ==
                          findWorkspaceUser(D, meetingData.workspaceId, userId)
                      participant == findParticipant(D, meetingId, userId)
                  IN  IF userWorkspace = NoRow
                      THEN Error(D, "You don't have access to this meeting")
                      ELSE IF ~canEditCreate(userWorkspace, meetingData,
                                             participant, userId)
                      THEN Error(D, "You don't have permission to create outcomes for this meeting")
                      ELSE insertOutcome(D, meetingId, type, content, meta, userId)

\* A filter that also keeps, for a user, the outcomes without a focus.
matchesFocusOrGeneral(outcome, focusUserId) ==
    IF Falsy(outcome.meta) THEN TRUE
    ELSE LET meta == JSONparse(outcome.meta)
         IN  \/ meta.threw
             \/ meta.kind # "object"
             \/ Falsy(meta.focusParticipantId)
             \/ meta.focusParticipantId = focusUserId

\* The filter of getMeetingOutcomes (lines 146-166).
matchesFocus(outcome, focusUserId) ==
    IF Falsy(outcome.meta) THEN focusUserId = "all"
    ELSE LET meta == JSONparse(outcome.meta)
         IN  IF meta.threw THEN focusUserId = "all"
             \* reading a property of null throws, which is caught too
             ELSE IF meta.kind = "null" THEN focusUserId = "all"
             ELSE LET focusParticipantId ==
                          IF meta.kind = "object" THEN meta.focusParticipantId
                          ELSE Undefined
                  IN  IF focusUserId = "all" THEN Falsy(focusParticipantId)
                      ELSE focusParticipantId = focusUserId

\* getMeetingOutcomes (lines 101-173).
getMeetingOutcomes(D, session, meetingId, focusUserId) ==
    IF session = Undefined THEN Error(D, "Unauthorized")
    ELSE LET userId == session
             meetingData == findMeeting(D, meetingId)
         IN  IF meetingData = NoRow THEN Error(D, "Meeting not found")
             ELSE LET userWorkspace ==
                          findWorkspaceUser(D, meetingData.workspaceId, userId)
                      outcomes == {o \in D.meetingOutcome : o.meetingId = meetingId}
                  IN  IF userWorkspace = NoRow
                      THEN Error(D, "You don't have access to this meeting")
                      ELSE IF Falsy(focusUserId) THEN Data(D, outcomes)
                      ELSE Data(D, {o \in outcomes : matchesFocus(o, focusUserId)})

\* updateMeetingOutcome (lines 176-265); now is new Date().
updateMeetingOutcome(D, session, outcomeId, type, content, meta, now) ==
    IF session = Undefined THEN Error(D, "Unauthorized")
    ELSE LET userId == session
             outcomeData == findOutcome(D, outcomeId)
         IN  IF outcomeData = NoRow THEN Error(D, "Outcome not found")
             ELSE LET meetingData == findMeeting(D, outcomeData.meetingId)
                  IN  IF meetingData = NoRow THEN Error(D, "Meeting not found")
                      ELSE LET userWorkspace ==
                                   findWorkspaceUser(D, meetingData.workspaceId, userId)
                               participant ==
                                   findParticipant(D, outcomeData.meetingId, userId)
                               updatedOutcome ==
                                   [outcomeData EXCEPT
                                      !.type = IF type # Undefined THEN type ELSE @,
                                      !.content = IF content # Undefined THEN content ELSE @,
                                      !.meta = IF meta # Undefined THEN meta ELSE @,
                                      !.updatedAt = <<now>>]
                           IN  IF userWorkspace = NoRow
                               THEN Error(D, "You don't have access to this meeting")
                               ELSE IF ~( \/ userWorkspace.role = "admin"
                                          \/ meetingData.createdById = userId
                                          \/ outcomeData.createdById = userId
                                          \/ RoleOf(participant) = "organizer"
                                          \/ RoleOf(participant) = "editor" )
                               THEN Error(D, "You don't have permission to update this outcome")
                               ELSE Data([D EXCEPT !.meetingOutcome =
                                             (@ \ {outcomeData}) \cup {updatedOutcome}],
                                         updatedOutcome)

\* deleteMeetingOutcome (lines 268-332).
deleteMeetingOutcome(D, session, outcomeId) ==
    IF session = Undefined THEN Error(D, "Unauthorized")
    ELSE LET userId == session
             outcomeData == findOutcome(D, outcomeId)
         IN  IF outcomeData = NoRow THEN Error(D, "Outcome not found")
             ELSE LET meetingData == findMeeting(D, outcomeData.meetingId)
                  IN  IF meetingData = NoRow THEN Error(D, "Meeting not found")
                      ELSE LET userWorkspace ==
                                   findWorkspaceUser(D, meetingData.workspaceId, userId)
                               participant ==
                                   findParticipant(D, outcomeData.meetingId, userId)
                               canDelete ==
                                   \/ (userWorkspace # NoRow /\ userWorkspace.role = "admin")
                                   \/ meetingData.createdById = userId
                                   \/ outcomeData.createdById = userId
                                   \/ RoleOf(participant) = "organizer"
                           IN  IF userWorkspace = NoRow \/ ~canDelete
                               THEN Error(D, "You don't have permission to delete this outcome")
                               ELSE Data([D EXCEPT !.meetingOutcome = @ \ {outcomeData}],
                                         [success |-> TRUE])

\* What generateOutcome (src/lib/actions/ai/generate.ts, lines 339-380) does:
\* it returns a text or throws.
GenerateOutcomes == {"text", "throws"}

\* generateMeetingOutcome (lines 335-464).
generateMeetingOutcome(D, session, meetingId, outcomeType, additionalPrompt, focusParticipantId, generated) ==
    IF session = Undefined THEN Error(D, "Unauthorized")
    ELSE LET userId == session
             meetingData == findMeeting(D, meetingId)
         IN  IF meetingData = NoRow THEN Error(D, "Meeting not found")
             ELSE LET userWorkspace ==
                          findWorkspaceUser(D, meetingData.workspaceId, userId)
                      participant == findParticipant(D, meetingId, userId)
                      recordings == {r \in D.meetingRecording :
                                        /\ r.meetingId = meetingId
                                        /\ r.transcription # Null}
                      meta == JSONstringify(
                                  [additionalPrompt |->
                                       IF Falsy(additionalPrompt) THEN Undefined
                                       ELSE additionalPrompt,
                                   focusParticipantId |->
                                       IF Falsy(focusParticipantId) THEN Undefined
                                       ELSE focusParticipantId])
                  IN  IF userWorkspace = NoRow
                      THEN Error(D, "You don't have access to this meeting")
                      ELSE IF ~canEditCreate(userWorkspace, meetingData,
                                             participant, userId)
                      THEN Error(D, "You don't have permission to create outcomes for this meeting")
                      ELSE IF recordings = {}
                      THEN Error(D, "No transcriptions found for this meeting")
                      ELSE IF generated = "throws"
                      THEN Error(D, "Failed to generate meeting outcome")
                      ELSE insertOutcome(D, meetingId,
                               IF outcomeType = "summary" THEN "Summary"
                               ELSE "Action Items",
                               "text", meta, userId)

\* The page variables on the server side: no page.
NoPage ==
    /\ element = ModuleLoaded(FALSE)
    /\ audioManager = [activeSource |-> EmptyString, activePlayerCallback |-> NoCallback]
    /\ audio = [src |-> EmptyString, paused |-> TRUE, currentTime |-> 0, ready |-> FALSE]
    /\ canplayListeners = <<>>
    /\ timers = <<>>
    /\ refs = [p \in Players |-> FreshRefs]
    /\ currentTime = [p \in Players |-> initialTime]
    /\ desiredPlaying = [p \in Players |-> FALSE]
    /\ props = [p \in Players |-> Unmounted]
    /\ last = [op |-> "init", player |-> 0, log |-> <<>>]
    /\ inputs = 0
    /\ clock = 0
    /\ forwardedAt = [p \in Players |-> <<>>]

\* One server action has run: the tables it leaves and what it returned.
Served(op, session, args, r) ==
    /\ r.db.nextId <= MaxOutcomeId + 1
    /\ db' = r.db
    /\ response' = [op |-> op, session |-> session, args |-> args,
                    result |-> r.result]

\* The callers: nobody signed in, or one of the users.
Sessions == {Undefined} \cup Users
MeetingArgs == {"m1", "m2", "m3"}

CreateMeetingOutcome ==
    /\ UNCHANGED pageVars
    /\ \E session \in Sessions, meetingId \in MeetingArgs, meta \in {Undefined} :
            Served("create", session, [meetingId |-> meetingId],
                   createMeetingOutcome(db, session, meetingId, "Note", "c1", meta))

UpdateMeetingOutcome ==
    /\ UNCHANGED pageVars
    /\ \E session \in Sessions, outcomeId \in 1..MaxOutcomeId,
           content \in {Undefined, "c2"} :
            Served("update", session, [outcomeId |-> outcomeId],
                   updateMeetingOutcome(db, session, outcomeId, Undefined, content,
                                        Undefined, clock))

DeleteMeetingOutcome ==
    /\ UNCHANGED pageVars
    /\ \E session \in Sessions, outcomeId \in 1..MaxOutcomeId :
            Served("delete", session, [outcomeId |-> outcomeId],
                   deleteMeetingOutcome(db, session, outcomeId))

GenerateMeetingOutcome ==
    /\ UNCHANGED pageVars
    /\ \E session \in Sessions, meetingId \in MeetingArgs,
           focusParticipantId \in {"u2"}, generated \in GenerateOutcomes :
            Served("generate", session, [meetingId |-> meetingId],
                   generateMeetingOutcome(db, session, meetingId, "summary", Undefined,
                                          focusParticipantId, generated))

\* The workspaces w1 and w2 with a meeting each (m1 created by either
\* user, m2 by u2), u1 with any standing in w1, in w2 and in m1, u2 with
\* none, a recording of m1 with or without a transcription, and one
\* outcome of m1 written by either user.
Tables(creator, role1, role2, participantRole, transcription, outcomes, nextId) ==
    [meeting |-> {[id |-> "m1", workspaceId |-> "w1", createdById |-> creator],
                  [id |-> "m2", workspaceId |-> "w2", createdById |-> "u2"]},
     workspaceUser |->
         {[workspaceId |-> "w1", userId |-> "u1", role |-> role1] : x \in
              IF role1 = Undefined THEN {} ELSE {1}}
         \cup {[workspaceId |-> "w2", userId |-> "u1", role |-> role2] : x \in
              IF role2 = Undefined THEN {} ELSE {1}},
     meetingParticipant |->
         {[meetingId |-> "m1", userId |-> "u1", role |-> participantRole] : x \in
              IF participantRole = Undefined THEN {} ELSE {1}},
     meetingRecording |-> {[meetingId |-> "m1", transcription |-> transcription]},
     meetingOutcome |-> outcomes,
     nextId |-> nextId]

Outcome(id, meetingId, meta, userId) ==
    [id |-> id, meetingId |-> meetingId, type |-> "Note", content |-> "c1",
     meta |-> meta, createdById |-> userId, updatedAt |-> <<>>]

InitOutcomes ==
    /\ NoPage
    /\ response = NoResponse
    /\ \E creator \in Users, role1 \in {Undefined, "member", "admin"},
          role2 \in {Undefined, "admin"},
          participantRole \in {Undefined, OtherRole, "editor", "organizer"},
          transcription \in {Null, "words"}, author \in Users :
           db = Tables(creator, role1, role2, participantRole, transcription,
                       {Outcome(1, "m1", Undefined, author)}, 2)

NextOutcomes ==
    \/ CreateMeetingOutcome
    \/ UpdateMeetingOutcome
    \/ DeleteMeetingOutcome
    \/ GenerateMeetingOutcome

SpecOutcomes == InitOutcomes /\ [][NextOutcomes]_vars

GetMeetingOutcomes ==
    /\ UNCHANGED pageVars
    /\ \E session \in Sessions, meetingId \in MeetingArgs,
           focusUserId \in {Undefined, "", "all"} \cup Users :
            Served("get", session,
                   [meetingId |-> meetingId, focusUserId |-> focusUserId],
                   getMeetingOutcomes(db, session, meetingId, focusUserId))

\* SpecFilter: u1, creator of m1 and member or not of its workspace, and
\* anybody else read the outcomes of a meeting under every focus; the
\* table holds one outcome of m1 with any meta, and either a second one of
\* m1 or m2 with any meta or one that generateMeetingOutcome then writes.
InitFilter ==
    /\ NoPage
    /\ response = NoResponse
    /\ \E role1 \in {Undefined, "member"}, meta1 \in Metas :
         \/ db = Tables("u1", role1, Undefined, Undefined, "words",
                        {Outcome(1, "m1", meta1, "u1")}, 2)
         \/ \E meta2 \in Metas, meeting2 \in {"m1", "m2"} :
              db = Tables("u1", role1, Undefined, Undefined, "words",
                          {Outcome(1, "m1", meta1, "u1"),
                           Outcome(2, meeting2, meta2, "u2")}, 3)

GenerateFocused ==
    /\ UNCHANGED pageVars
    /\ \E focusParticipantId \in {Undefined, "u2"}, additionalPrompt \in {Undefined, "p"} :
            Served("generate", "u1", [meetingId |-> "m1"],
                   generateMeetingOutcome(db, "u1", "m1", "actions", additionalPrompt,
                                          focusParticipantId, "text"))

NextFilter ==
    \/ GetMeetingOutcomes
    \/ GenerateFocused

SpecFilter == InitFilter /\ [][NextFilter]_vars

\* C27: an unmounted Player has no sampling frame pending and the task
\* just run was not a sampling callback of it.
C27_UnmountCancelsLoop ==
    \A p \in Players :
        ~props[p].mounted
        => /\ refs[p].animationRef = NoFrame
           /\ ~(last.op = "frame" /\ last.player = p)

\* C27 witness: a Player whose source was not the active one has been
\* unmounted while a sampling frame of it was pending (the unmount made no
\* pause and cancelled the frame), another Player staying active.
C27_Witness ==
    /\ last.op = "unmount"
    /\ ~props[last.player].mounted
    /\ Calls(last.log, "cancelAnimationFrame", last.player) # {}
    /\ Calls(last.log, "pause", 0) = {}
    /\ \E q \in Mounted : ActivePlayer(q) /\ ~audio.paused

\* C28: whenever a timeupdate listener of a Player forwards a position to
\* the owning UI, the source loaded in the element is that Player's
\* source, and at least 250 ms have passed since the listener's previous
\* forward.
C28_ThrottledOwnSourceForward ==
    [][\A p \in Players :
         (last'.op = "timeupdate" /\ Calls(last'.log, "onTimeUpdate", p) # {})
         => /\ audio.src = props[p].src
            /\ forwardedAt[p] # <<>>
               => clock' - forwardedAt[p][1] >= timeUpdateThreshold]_vars

\* The caller of request r holds, in tables D, what the claim asks of it.
HasSession(r) == r.session # Undefined
TargetOutcomes(D, r) ==
    IF r.op \in {"update", "delete"}
    THEN {o \in D.meetingOutcome : o.id = r.args.outcomeId}
    ELSE {}
TargetMeetings(D, r) ==
    IF r.op \in {"update", "delete"}
    THEN {m \in D.meeting : \E o \in TargetOutcomes(D, r) : m.id = o.meetingId}
    ELSE {m \in D.meeting : m.id = r.args.meetingId}
MemberOf(D, u, m) ==
    \E w \in D.workspaceUser : w.workspaceId = m.workspaceId /\ w.userId = u
WorkspaceAdmin(D, u, m) ==
    \E w \in D.workspaceUser :
        w.workspaceId = m.workspaceId /\ w.userId = u /\ w.role = "admin"
ParticipantAs(D, u, m, role) ==
    \E q \in D.meetingParticipant :
        q.meetingId = m.id /\ q.userId = u /\ q.role = role
PermittedRole(D, r, m) ==
    \/ WorkspaceAdmin(D, r.session, m)
    \/ m.createdById = r.session
    \/ ParticipantAs(D, r.session, m, "organizer")
    \/ r.op \in {"create", "update", "generate"}
       /\ ParticipantAs(D, r.session, m, "editor")
    \/ r.op \in {"update", "delete"}
       /\ \E o \in TargetOutcomes(D, r) : o.createdById = r.session
Authorized(D, r) ==
    /\ HasSession(r)
    /\ \E m \in TargetMeetings(D, r) :
         MemberOf(D, r.session, m) /\ PermittedRole(D, r, m)

MetaMissing(o) == o.meta = Undefined
MetaUnparseable(o) == ~MetaMissing(o) /\ JSONparse(o.meta).threw
HasFocusParticipant(o) ==
    /\ ~MetaMissing(o)
    /\ ~MetaUnparseable(o)
    /\ JSONparse(o.meta).kind = "object"
    /\ JSONparse(o.meta).focusParticipantId \notin {Undefined, Null, ""}
FocusParticipantIs(o, id) ==
    HasFocusParticipant(o) /\ JSONparse(o.meta).focusParticipantId = id
OutcomesOf(meetingId) == {o \in db.meetingOutcome : o.meetingId = meetingId}
AuthorizedReader(r) ==
    /\ r.session # Undefined
    /\ \E m \in db.meeting : m.id = r.args.meetingId /\ MemberOf(db, r.session, m)

\* C30: getMeetingOutcomes called by a signed-in member of the meeting's
\* workspace returns all outcomes of the meeting when focusUserId is absent,
\* with 'all' exactly those whose meta is missing, unparseable or without a
\* focusParticipantId, and with a user id exactly those whose parsed meta
\* has that id as focusParticipantId.
C30_FocusFilter ==
    (response.op = "get" /\ AuthorizedReader(response))
    => /\ "data" \in DOMAIN response.result
       /\ LET all == OutcomesOf(response.args.meetingId)
              focusUserId == response.args.focusUserId
              data == response.result.data
          IN  /\ focusUserId = Undefined => data = all
              /\ focusUserId = "all"
                 => data = {o \in all : \/ MetaMissing(o)
                                        \/ MetaUnparseable(o)
                                        \/ ~HasFocusParticipant(o)}
              /\ focusUserId \in Users
                 => data = {o \in all : FocusParticipantIs(o, focusUserId)}

\* C30 witness: u1 asked for the outcomes of m1 focused on u2 and got the
\* outcome generateMeetingOutcome wrote with that focus, and not the other
\* outcome of m1.
C30_Witness ==
    /\ response.op = "get"
    /\ AuthorizedReader(response)
    /\ response.args.focusUserId = "u2"
    /\ "data" \in DOMAIN response.result
    /\ \E o \in response.result.data : o.id = 2 /\ o.type = "Action Items"
    /\ \E o \in OutcomesOf("m1") : o \notin response.result.data

====
